---- MODULE Spec2Model ----
(***************************************************************************)
(* FitnessTracker (python_exam.py): an in-memory table of activity         *)
(* records backed by a CSV file, with two grouping aggregations, two       *)
(* filters and an interactive prompt that feeds add_activity.              *)
(*                                                                         *)
(* Text is a sequence of one-character strings.  A date value (a pandas    *)
(* Timestamp at midnight / datetime) is the integer y*10000 + m*100 + d,   *)
(* which orders dates as the timestamps are ordered.                       *)
(***************************************************************************)
EXTENDS Integers, Sequences, FiniteSets, TLC

VARIABLES
    fileState,   \* "absent" | "unreadable" | "ok": what is at csv_path
    fileRows,    \* the data rows of the CSV file (each row: four text cells)
    df,          \* self.df: the records held in memory, in order
    pc,          \* where main_menu is: "menu" (waiting for a choice), "done" (an
                 \* operation has returned), or at a prompt of prompt_activity
    pdate,       \* prompt_activity: the accepted date text
    pactivity,   \* prompt_activity: the accepted activity text
    pduration,   \* prompt_activity: the accepted duration
    lastOp,      \* the operation that ran last
    lastArgs,    \* the arguments it was called with
    result,      \* what it returned
    raised,      \* the exception that escaped it ("none" when it returned)
    printed,     \* the diagnostics it printed
    saveState    \* "clean": the last _save wrote df; "dirty": a _save failed
                 \* since; "flushed": the last _save wrote records that an
                 \* earlier failed _save had left unwritten

vars == <<fileState, fileRows, df, pc, pdate, pactivity, pduration,
          lastOp, lastArgs, result, raised, printed, saveState>>

-----------------------------------------------------------------------------
(* Bounds of the model *)

MaxRecords == 3

-----------------------------------------------------------------------------
(* Characters and text *)

Digits == <<"0", "1", "2", "3", "4", "5", "6", "7", "8", "9">>

UpperCase == <<"A", "B", "C", "D", "E", "F", "G", "H", "I", "J", "K", "L", "M",
               "N", "O", "P", "Q", "R", "S", "T", "U", "V", "W", "X", "Y", "Z">>

LowerCase == <<"a", "b", "c", "d", "e", "f", "g", "h", "i", "j", "k", "l", "m",
               "n", "o", "p", "q", "r", "s", "t", "u", "v", "w", "x", "y", "z">>

Whitespace == {" ", "\t"}

IsDigit(c) == \E i \in 1..Len(Digits) : Digits[i] = c

DigitVal(c) == (CHOOSE i \in 1..Len(Digits) : Digits[i] = c) - 1

AllDigits(t) == \A i \in 1..Len(t) : IsDigit(t[i])

\* The value of a run of decimal digits (0 for the empty run).
RECURSIVE DigitsVal(_)
DigitsVal(t) ==
    IF t = <<>> THEN 0
    ELSE 10 * DigitsVal(SubSeq(t, 1, Len(t) - 1)) + DigitVal(t[Len(t)])

\* str.lower(), one character.
LowerChar(c) ==
    IF \E i \in 1..Len(UpperCase) : UpperCase[i] = c
    THEN LowerCase[CHOOSE i \in 1..Len(UpperCase) : UpperCase[i] = c]
    ELSE c

\* str.lower()
Lower(t) == [i \in 1..Len(t) |-> LowerChar(t[i])]

\* str.strip(): drops the leading and trailing whitespace.
RECURSIVE LStrip(_)
LStrip(t) ==
    IF t # <<>> /\ t[1] \in Whitespace THEN LStrip(Tail(t)) ELSE t

RECURSIVE RStrip(_)
RStrip(t) ==
    IF t # <<>> /\ t[Len(t)] \in Whitespace
    THEN RStrip(SubSeq(t, 1, Len(t) - 1)) ELSE t

Strip(t) == RStrip(LStrip(t))

\* The decimal text of a natural number, as str() and to_csv write it.
RECURSIVE NatToText(_)
NatToText(n) ==
    IF n < 10 THEN <<Digits[n + 1]>>
    ELSE NatToText(n \div 10) \o <<Digits[(n % 10) + 1]>>

IntToText(n) == IF n < 0 THEN <<"-">> \o NatToText(-n) ELSE NatToText(n)

\* A natural number written with at least w digits, zero padded (%0wd).
RECURSIVE ZeroPad(_, _)
ZeroPad(t, w) == IF Len(t) >= w THEN t ELSE ZeroPad(<<"0">> \o t, w)

-----------------------------------------------------------------------------
(* Dates: datetime.strptime(text, "%Y-%m-%d") *)

IsLeap(y) == (y % 4 = 0 /\ y % 100 # 0) \/ y % 400 = 0

DaysInMonth(y, m) ==
    IF m = 2 THEN (IF IsLeap(y) THEN 29 ELSE 28)
    ELSE IF m \in {4, 6, 9, 11} THEN 30 ELSE 31

DateValue(y, m, d) == y * 10000 + m * 100 + d

DashAt(t) == {i \in 1..Len(t) : t[i] = "-"}

SetMin(S) == CHOOSE x \in S : \A y \in S : x <= y

SetMax(S) == CHOOSE x \in S : \A y \in S : x >= y

\* %Y is \d\d\d\d; %m is 1[0-2]|0[1-9]|[1-9]; %d is
\* 3[01]|[12]\d|0[1-9]|[1-9]| [1-9]; the whole text must be consumed, and
\* datetime() then rejects a year 0 and a day the month does not have.
YearOk(t) == Len(t) = 4 /\ AllDigits(t) /\ DigitsVal(t) >= 1

MonthOk(t) ==
    Len(t) \in {1, 2} /\ AllDigits(t) /\ DigitsVal(t) \in 1..12

DayText(t) == IF Len(t) = 2 /\ t[1] = " " THEN Tail(t) ELSE t

DayOk(t) ==
    /\ Len(t) \in {1, 2}
    /\ AllDigits(DayText(t))
    /\ DigitsVal(DayText(t)) \in 1..31
    /\ (Len(t) = 2 /\ t[1] = " ") => t[2] # "0"

\* [ok |-> the text parses, date |-> its value (0 when it does not)]
Strptime(t) ==
    IF Cardinality(DashAt(t)) # 2 THEN [ok |-> FALSE, date |-> 0]
    ELSE LET i1 == SetMin(DashAt(t))
             i2 == SetMax(DashAt(t))
             yt == SubSeq(t, 1, i1 - 1)
             mt == SubSeq(t, i1 + 1, i2 - 1)
             dt == SubSeq(t, i2 + 1, Len(t))
         IN  IF /\ YearOk(yt) /\ MonthOk(mt) /\ DayOk(dt)
                /\ DigitsVal(DayText(dt)) <= DaysInMonth(DigitsVal(yt), DigitsVal(mt))
             THEN [ok |-> TRUE,
                   date |-> DateValue(DigitsVal(yt), DigitsVal(mt), DigitsVal(DayText(dt)))]
             ELSE [ok |-> FALSE, date |-> 0]

\* A date value as to_csv writes a datetime column: YYYY-MM-DD.
FormatDate(v) ==
    ZeroPad(NatToText(v \div 10000), 4) \o <<"-">>
        \o ZeroPad(NatToText((v \div 100) % 100), 2) \o <<"-">>
        \o ZeroPad(NatToText(v % 100), 2)

-----------------------------------------------------------------------------
(* Integers: int(x) *)

\* An argument that is either an int or a str:
\* [isInt |-> TRUE, n |-> the int, s |-> <<>>] or
\* [isInt |-> FALSE, n |-> 0, s |-> the text].
IntArg(n) == [isInt |-> TRUE, n |-> n, s |-> <<>>]

StrArg(t) == [isInt |-> FALSE, n |-> 0, s |-> t]

\* int(text): surrounding whitespace and one sign are allowed, then digits.
ParseInt(t) ==
    LET s == Strip(t)
        signed == s # <<>> /\ s[1] \in {"+", "-"}
        body == IF signed THEN Tail(s) ELSE s
    IN  IF body # <<>> /\ AllDigits(body)
        THEN [ok |-> TRUE,
              n |-> IF signed /\ s[1] = "-" THEN -DigitsVal(body) ELSE DigitsVal(body)]
        ELSE [ok |-> FALSE, n |-> 0]

\* int(x) of an int is x; of a str it parses or raises ValueError.
PyInt(a) == IF a.isInt THEN [ok |-> TRUE, n |-> a.n] ELSE ParseInt(a.s)

-----------------------------------------------------------------------------
(* The CSV file: DataFrame.to_csv(index=False) and pandas.read_csv *)

\* One record as a row of four text cells.
ToCsvRow(r) ==
    [date |-> FormatDate(r.date),
     activity_type |-> r.activity_type,
     duration |-> IntToText(r.duration),
     calories_burned |-> IntToText(r.calories_burned)]

ToCsv(d) == [i \in 1..Len(d) |-> ToCsvRow(d[i])]

\* The cell texts read_csv takes for a missing value (its default na_values).
NaValues ==
    { <<>>,
      <<"#", "N", "/", "A">>,
      <<"#", "N", "/", "A", " ", "N", "/", "A">>,
      <<"#", "N", "A">>,
      <<"-", "1", ".", "#", "I", "N", "D">>,
      <<"-", "1", ".", "#", "Q", "N", "A", "N">>,
      <<"-", "N", "a", "N">>,
      <<"-", "n", "a", "n">>,
      <<"1", ".", "#", "I", "N", "D">>,
      <<"1", ".", "#", "Q", "N", "A", "N">>,
      <<"<", "N", "A", ">">>,
      <<"N", "/", "A">>,
      <<"N", "A">>,
      <<"N", "U", "L", "L">>,
      <<"N", "a", "N">>,
      <<"N", "o", "n", "e">>,
      <<"n", "/", "a">>,
      <<"n", "a", "n">>,
      <<"n", "u", "l", "l">> }

\* A parsed cell: [nan |-> TRUE, v |-> 0] for NaN/NaT, else the value.
NaN == [nan |-> TRUE, v |-> 0]

Val(x) == [nan |-> FALSE, v |-> x]

\* read_csv on a cell of a text column.
ReadCell(c) == IF c \in NaValues THEN NaN ELSE Val(c)

\* pd.to_datetime(column, errors='coerce') on a cell that holds a
\* year-month-day text or no date at all.
ToDatetime(c) ==
    IF c \in NaValues \/ ~Strptime(c).ok THEN NaN ELSE Val(Strptime(c).date)

\* pd.to_numeric(column, errors='coerce') on a cell that holds an integer
\* or no number at all.
ToNumeric(c) ==
    IF c \in NaValues \/ ~ParseInt(c).ok THEN NaN ELSE Val(ParseInt(c).n)

\* A file row after read_csv and the three coercions of _load_data.
ParseRow(row) ==
    [date |-> ToDatetime(row.date),
     activity_type |-> ReadCell(row.activity_type),
     duration |-> ToNumeric(row.duration),
     calories_burned |-> ToNumeric(row.calories_burned)]

\* df.dropna(subset=self.columns) keeps the rows with no NaN in the four columns.
KeptByDropna(p) ==
    ~p.date.nan /\ ~p.activity_type.nan /\ ~p.duration.nan /\ ~p.calories_burned.nan

RowRecord(p) ==
    [date |-> p.date.v,
     activity_type |-> p.activity_type.v,
     duration |-> p.duration.v,
     calories_burned |-> p.calories_burned.v]

RECURSIVE DropnaRecords(_)
DropnaRecords(rows) ==
    IF rows = <<>> THEN <<>>
    ELSE LET p == ParseRow(Head(rows))
         IN  (IF KeptByDropna(p) THEN <<RowRecord(p)>> ELSE <<>>)
                 \o DropnaRecords(Tail(rows))

\* _load_data: [df |-> the records, printed |-> the diagnostics]
LoadData(state, rows) ==
    IF state = "absent" THEN [df |-> <<>>, printed |-> <<"No file found">>]
    ELSE IF state = "unreadable"
         THEN [df |-> <<>>, printed |-> <<"Failed to load data">>]
         ELSE [df |-> DropnaRecords(rows), printed |-> <<>>]

-----------------------------------------------------------------------------
(* Ordering of text, as the sorted group keys of groupby need it *)

\* The printable characters in code order, from the space on (of the
\* punctuation, only what the texts of the model use).
Ascii ==
    << " ", "#", "+", "-", ".", "/", "0", "1", "2", "3", "4", "5",
       "6", "7", "8", "9", "<", ">", "A", "B", "C", "D", "E", "F",
       "G", "H", "I", "J", "K", "L", "M", "N", "O", "P", "Q", "R",
       "S", "T", "U", "V", "W", "X", "Y", "Z", "_", "a", "b", "c",
       "d", "e", "f", "g", "h", "i", "j", "k", "l", "m", "n", "o",
       "p", "q", "r", "s", "t", "u", "v", "w", "x", "y", "z" >>

Code(c) == CHOOSE i \in 1..Len(Ascii) : Ascii[i] = c

RECURSIVE TextLess(_, _)
TextLess(a, b) ==
    IF b = <<>> THEN FALSE
    ELSE IF a = <<>> THEN TRUE
    ELSE IF a[1] = b[1] THEN TextLess(Tail(a), Tail(b))
    ELSE Code(a[1]) < Code(b[1])

-----------------------------------------------------------------------------
(* The aggregations and filters *)

Range(q) == {q[i] : i \in 1..Len(q)}

RECURSIVE GroupSumAll(_, _, _, _)
GroupSumAll(d, key, k, col) ==
    IF d = <<>> THEN 0 ELSE Head(d)[col] + GroupSumAll(Tail(d), key, k, col)

\* The sum of column col over the records of d whose column key equals k.
RECURSIVE GroupSum(_, _, _, _)
GroupSum(d, key, k, col) ==
    IF d = <<>> THEN 0
    ELSE (IF Head(d)[key] = k THEN Head(d)[col] ELSE 0)
             + GroupSum(Tail(d), key, k, col)

RECURSIVE GroupCount(_, _, _)
GroupCount(d, key, k) ==
    IF d = <<>> THEN 0
    ELSE (IF Head(d)[key] = k THEN 1 ELSE 0) + GroupCount(Tail(d), key, k)

\* groupby sorts its keys: the dates ascending.
RECURSIVE SortedDates(_)
SortedDates(S) ==
    IF S = {} THEN <<>>
    ELSE LET m == SetMin(S) IN <<m>> \o SortedDates(S \ {m})

\* ... and the activity types in the order of their text.
RECURSIVE SortedTexts(_)
SortedTexts(S) ==
    IF S = {} THEN <<>>
    ELSE LET m == CHOOSE x \in S : \A y \in S \ {x} : TextLess(x, y)
         IN  <<m>> \o SortedTexts(S \ {m})

RECURSIVE Gcd(_, _)
Gcd(a, b) == IF b = 0 THEN a ELSE Gcd(b, a % b)

MeanFloor(sum, count) == [num |-> sum \div count, den |-> 1]

\* The mean sum/count as an exact fraction in lowest terms.
Mean(sum, count) ==
    LET g == Gcd(IF sum < 0 THEN -sum ELSE sum, count)
    IN  [num |-> sum \div g, den |-> count \div g]

\* daily_summary
DailySummary(d) ==
    IF d = <<>> THEN <<>>
    ELSE LET keys == SortedDates({r.date : r \in Range(d)})
         IN  [i \in 1..Len(keys) |->
                [date |-> keys[i],
                 total_duration |-> GroupSum(d, "date", keys[i], "duration"),
                 total_calories |-> GroupSum(d, "date", keys[i], "calories_burned")]]

\* activity_trends
ActivityTrends(d) ==
    IF d = <<>> THEN <<>>
    ELSE LET keys == SortedTexts({r.activity_type : r \in Range(d)})
         IN  [i \in 1..Len(keys) |->
                [activity_type |-> keys[i],
                 avg_duration |->
                     Mean(GroupSum(d, "activity_type", keys[i], "duration"),
                          GroupCount(d, "activity_type", keys[i])),
                 avg_calories |->
                     Mean(GroupSum(d, "activity_type", keys[i], "calories_burned"),
                          GroupCount(d, "activity_type", keys[i]))]]

\* df[mask]: the rows of d whose entry of the boolean mask is TRUE, in order.
RECURSIVE Keep(_, _)
Keep(d, mask) ==
    IF d = <<>> THEN <<>>
    ELSE (IF Head(mask) THEN <<Head(d)>> ELSE <<>>) \o Keep(Tail(d), Tail(mask))

InRangeExclusive(r, start, end) == r.date > start /\ r.date < end

\* One entry of the mask of filter_by_date: (date >= start) & (date <= end)
InRange(r, start, end) == r.date >= start /\ r.date <= end

\* filter_by_date: [df |-> the rows, printed |-> the diagnostics]
FilterByDate(d, start_date, end_date) ==
    IF ~Strptime(start_date).ok \/ ~Strptime(end_date).ok
    THEN [df |-> <<>>, printed |-> <<"Invalid date format.">>]
    ELSE LET start == Strptime(start_date).date
             end == Strptime(end_date).date
         IN  [df |-> Keep(d, [i \in 1..Len(d) |-> InRange(d[i], start, end)]),
              printed |-> <<>>]

\* One entry of the mask of filter_by_type:
\* activity_type.str.lower() == activity_type.lower()
TypeMatches(r, activity_type) == Lower(r.activity_type) = Lower(activity_type)

\* filter_by_type
FilterByType(d, activity_type) ==
    Keep(d, [i \in 1..Len(d) |-> TypeMatches(d[i], activity_type)])

-----------------------------------------------------------------------------
(* add_activity and _save *)

\* new_row of add_activity
NewRow(date, activity_type, duration, calories) ==
    [date |-> date,
     activity_type |-> Strip(activity_type),
     duration |-> duration,
     calories_burned |-> calories]

ConcatInFront(d, row) == <<row>> \o d

\* pd.concat([self.df, pd.DataFrame([new_row])], ignore_index=True)
Concat(d, row) == Append(d, row)

SaveRowsNewOnly(d) == IF d = <<>> THEN <<>> ELSE <<ToCsvRow(d[Len(d)])>>

\* The rows self.df.to_csv(self.csv_path, index=False) writes.
SaveRows(d) == ToCsv(d)

\* What a to_csv that fails can leave at csv_path: the file as it was (the
\* open failed), an empty file (truncated, nothing written), or the header
\* and the rows but the last (the write stopped part way).
FailedWrites(state, rows, d) ==
    {[state |-> state, rows |-> rows],
     [state |-> "unreadable", rows |-> <<>>],
     [state |-> "ok", rows |-> SubSeq(SaveRows(d), 1, Len(d) - 1)]}

-----------------------------------------------------------------------------
(* get_input and the casts and conditions prompt_activity gives it *)

CastStr(t) == [ok |-> TRUE, v |-> t]

CastInt(t) == [ok |-> ParseInt(t).ok, v |-> ParseInt(t).n]

\* lambda d: datetime.strptime(d, "%Y-%m-%d"): a datetime is truthy, and a
\* ValueError is caught by get_input like a false condition.
CondDate(d) == Strptime(d).ok

CondActivity(x) == Strip(x) # <<>>

CondDuration(x) == x > 0

CondCalories(x) == x >= 0

\* One turn of the loop of get_input on the typed text val, given what
\* cast_func(val) gives (cast) and whether condition holds of that (cond):
\* [accepted |-> it returns, v |-> the value it returns]
GetInput(val, cast, cond) ==
    IF cast.ok /\ cond THEN [accepted |-> TRUE, v |-> cast.v]
    ELSE [accepted |-> FALSE, v |-> val]

-----------------------------------------------------------------------------
(* The texts the model uses *)

Date_2024_01_01 == <<"2", "0", "2", "4", "-", "0", "1", "-", "0", "1">>

Date_2024_01_02 == <<"2", "0", "2", "4", "-", "0", "1", "-", "0", "2">>

Date_2024_01_03 == <<"2", "0", "2", "4", "-", "0", "1", "-", "0", "3">>

Date_2024_1_2 == <<"2", "0", "2", "4", "-", "1", "-", "2">>

Date_2024_13_01 == <<"2", "0", "2", "4", "-", "1", "3", "-", "0", "1">>

Text_soon == <<"s", "o", "o", "n">>

Text_Run == <<"R", "u", "n">>

Text_run == <<"r", "u", "n">>

Text_run_padded == <<" ", "r", "u", "n", " ">>

Text_Run_led == <<" ", "R", "u", "n">>

Text_NA == <<"N", "A">>

Text_Swim == <<"S", "w", "i", "m">>

Text_blank == <<" ", " ">>

Text_abc == <<"a", "b", "c">>

Text_empty == <<>>

Text_0 == <<"0">>

Text_20 == <<"2", "0">>

Text_30 == <<"3", "0">>

Text_40 == <<"4", "0">>

Text_100 == <<"1", "0", "0">>

Text_150 == <<"1", "5", "0">>

Text_300 == <<"3", "0", "0">>

Text_400 == <<"4", "0", "0">>

Text_minus1 == <<"-", "1">>

Row(date, activity_type, duration, calories) ==
    [date |-> date, activity_type |-> activity_type,
     duration |-> duration, calories_burned |-> calories]

-----------------------------------------------------------------------------
(* The inputs: arguments of the calls, texts typed at the prompts, files *)

\* date_str of add_activity: a date, and a text that is no date.
DateArgs == {Date_2024_01_01, Date_2024_13_01}

\* activity_type of add_activity
TypeArgs == {Text_run_padded, Text_NA}

\* duration of add_activity: an int, or a str that is no integer.
DurationArgs == {IntArg(30), StrArg(Text_abc)}

\* calories of add_activity
CaloriesArgs == {IntArg(0), StrArg(Text_abc)}

\* start_date and end_date of filter_by_date
RangeArgs == {Date_2024_01_01, Date_2024_01_02, Text_soon}

\* activity_type of filter_by_type
TypeQueries == {Text_run, Text_Swim}

\* What the user types at the four prompts of prompt_activity.
DateInputs == {Date_2024_01_02, Date_2024_1_2, Date_2024_13_01}

ActivityInputs == {Text_run_padded, Text_blank}

DurationInputs == {Text_30, Text_0, Text_abc}

CaloriesInputs == {Text_0, Text_minus1, Text_abc}

\* The three records of the example of the specification.
ExampleRows ==
    << Row(Date_2024_01_01, Text_Run, Text_30, Text_300),
       Row(Date_2024_01_01, Text_Swim, Text_20, Text_150),
       Row(Date_2024_01_02, Text_Run, Text_40, Text_400) >>

\* Five rows, one of them with a duration that is no number.
FiveRows ==
    << Row(Date_2024_01_01, Text_Run, Text_30, Text_300),
       Row(Date_2024_01_01, Text_Swim, Text_abc, Text_150),
       Row(Date_2024_01_02, Text_Run, Text_40, Text_400),
       Row(Date_2024_01_02, Text_run, Text_20, Text_100),
       Row(Date_2024_01_03, Text_Run, Text_20, Text_150) >>

\* A file edited by hand: each row but the first and the last has one field
\* that is missing or does not parse.
OneBadFieldRows ==
    << Row(Date_2024_01_02, Text_Swim, Text_20, Text_150),
       Row(Text_empty, Text_Run, Text_30, Text_300),
       Row(Text_soon, Text_Run, Text_30, Text_300),
       Row(Date_2024_01_01, Text_empty, Text_30, Text_300),
       Row(Date_2024_01_01, Text_Run, Text_empty, Text_300),
       Row(Date_2024_01_01, Text_Run, Text_abc, Text_300),
       Row(Date_2024_01_01, Text_Run, Text_30, Text_empty),
       Row(Date_2024_01_01, Text_Run, Text_30, Text_abc),
       Row(Date_2024_01_01, Text_Run, Text_40, Text_400) >>

\* A file edited by hand, with a space before an activity type.
PaddedRows ==
    << Row(Date_2024_01_01, Text_Run_led, Text_30, Text_300),
       Row(Date_2024_01_02, Text_Swim, Text_20, Text_150) >>

\* What can be at csv_path when the program starts.
InitialFiles ==
    {[state |-> "absent", rows |-> <<>>],
     [state |-> "unreadable", rows |-> <<>>],
     [state |-> "ok", rows |-> <<>>],
     [state |-> "ok", rows |-> ExampleRows],
     [state |-> "ok", rows |-> FiveRows],
     [state |-> "ok", rows |-> OneBadFieldRows],
     [state |-> "ok", rows |-> PaddedRows]}

-----------------------------------------------------------------------------
(* The state machine *)

NoArgs == [none |-> TRUE]

\* FitnessTracker(): self.df = self._load_data()
Init ==
    /\ \E f \in InitialFiles : fileState = f.state /\ fileRows = f.rows
    /\ df = LoadData(fileState, fileRows).df
    /\ printed = LoadData(fileState, fileRows).printed
    /\ pc = "done"
    /\ pdate = <<>> /\ pactivity = <<>> /\ pduration = 0
    /\ lastOp = "load" /\ lastArgs = NoArgs /\ result = "None"
    /\ raised = "none"
    /\ saveState = "clean"

AtMenu == pc = "menu" /\ raised = "none"

\* The program is started again (after choice 7, or after an exception
\* ended it): main_menu builds a new FitnessTracker.
Restart ==
    /\ pc = "menu" \/ raised # "none"
    /\ pc' = "done"
    /\ df' = LoadData(fileState, fileRows).df
    /\ printed' = LoadData(fileState, fileRows).printed
    /\ lastOp' = "load" /\ lastArgs' = NoArgs /\ result' = "None"
    /\ raised' = "none"
    /\ saveState' = "clean"
    /\ UNCHANGED <<fileState, fileRows, pdate, pactivity, pduration>>

\* The operation has returned and its result is shown: the loop of main_menu
\* comes round to the menu again.
BackToMenu ==
    /\ pc = "done" /\ raised = "none"
    /\ pc' = "menu"
    /\ lastOp' = "menu" /\ lastArgs' = NoArgs /\ result' = "None"
    /\ printed' = <<>>
    /\ UNCHANGED <<fileState, fileRows, df, pdate, pactivity, pduration,
                   raised, saveState>>

\* _save after a record was appended: to_csv succeeds or fails.
Save ==
    \/ /\ fileState' = "ok"
       /\ fileRows' = SaveRows(df')
       /\ saveState' = IF saveState = "dirty" THEN "flushed" ELSE "clean"
       /\ printed' = <<"Activity added.">>
    \/ /\ \E f \in FailedWrites(fileState, fileRows, df') :
              fileState' = f.state /\ fileRows' = f.rows
       /\ saveState' = "dirty"
       /\ printed' = <<"Failed to save data", "Activity added.">>

\* add_activity(date_str, activity_type, duration, calories)
add_activity(date_str, activity_type, duration, calories, via) ==
    /\ lastOp' = "add_activity"
    /\ lastArgs' = [date_str |-> date_str, activity_type |-> activity_type,
                    duration |-> duration, calories |-> calories, via |-> via]
    /\ result' = "None"
    /\ pc' = "done"
    /\ pdate' = <<>> /\ pactivity' = <<>> /\ pduration' = 0
    /\ IF ~Strptime(date_str).ok
       THEN /\ printed' = <<"Invalid date. Use YYYY-MM-DD.">>
            /\ raised' = "none"
            /\ UNCHANGED <<df, fileState, fileRows, saveState>>
       ELSE IF ~PyInt(duration).ok \/ ~PyInt(calories).ok
       THEN /\ printed' = <<>>
            /\ raised' = "ValueError"
            /\ UNCHANGED <<df, fileState, fileRows, saveState>>
       ELSE /\ Len(df) < MaxRecords
            /\ df' = Concat(df, NewRow(Strptime(date_str).date, activity_type,
                                       PyInt(duration).n, PyInt(calories).n))
            /\ raised' = "none"
            /\ Save

\* A caller of the core calls add_activity.
AddActivity ==
    /\ AtMenu
    /\ \E d \in DateArgs, t \in TypeArgs, u \in DurationArgs, c \in CaloriesArgs :
           add_activity(d, t, u, c, "call")

\* Choice 2: daily_summary
ViewDailySummary ==
    /\ AtMenu
    /\ lastOp' = "daily_summary" /\ lastArgs' = NoArgs
    /\ result' = DailySummary(df)
    /\ printed' = IF df = <<>> THEN <<"No data available.">> ELSE <<>>
    /\ pc' = "done"
    /\ UNCHANGED <<fileState, fileRows, df, pdate, pactivity, pduration,
                   raised, saveState>>

\* Choice 3: activity_trends
ViewActivityTrends ==
    /\ AtMenu
    /\ lastOp' = "activity_trends" /\ lastArgs' = NoArgs
    /\ result' = ActivityTrends(df)
    /\ printed' = IF df = <<>> THEN <<"No data available.">> ELSE <<>>
    /\ pc' = "done"
    /\ UNCHANGED <<fileState, fileRows, df, pdate, pactivity, pduration,
                   raised, saveState>>

\* Choice 4: filter_by_date(start, end)
FilterDate ==
    /\ AtMenu
    /\ \E s \in RangeArgs, e \in RangeArgs :
          /\ lastOp' = "filter_by_date"
          /\ lastArgs' = [start_date |-> s, end_date |-> e]
          /\ result' = FilterByDate(df, s, e).df
          /\ printed' = FilterByDate(df, s, e).printed
    /\ pc' = "done"
    /\ UNCHANGED <<fileState, fileRows, df, pdate, pactivity, pduration,
                   raised, saveState>>

\* Choice 5: filter_by_type(activity)
FilterType ==
    /\ AtMenu
    /\ \E t \in TypeQueries :
          /\ lastOp' = "filter_by_type"
          /\ lastArgs' = [activity_type |-> t]
          /\ result' = FilterByType(df, t)
          /\ printed' = <<>>
    /\ pc' = "done"
    /\ UNCHANGED <<fileState, fileRows, df, pdate, pactivity, pduration,
                   raised, saveState>>

\* Choice 1: prompt_activity starts and asks for the date.
ChooseAdd ==
    /\ AtMenu
    /\ pc' = "date"
    /\ lastOp' = "menu" /\ lastArgs' = NoArgs /\ result' = "None"
    /\ printed' = <<>>
    /\ UNCHANGED <<fileState, fileRows, df, pdate, pactivity, pduration,
                   raised, saveState>>

\* A turn of get_input that rejects the text: it prints the error and asks again.
Rejected(val, error) ==
    /\ lastOp' = "get_input" /\ lastArgs' = [val |-> val] /\ result' = "None"
    /\ printed' = <<error>>
    /\ UNCHANGED <<fileState, fileRows, df, pc, pdate, pactivity, pduration,
                   raised, saveState>>

\* A turn of get_input that accepts: prompt_activity goes on to the next prompt.
Accepted(val, next) ==
    /\ lastOp' = "get_input" /\ lastArgs' = [val |-> val] /\ result' = "None"
    /\ printed' = <<>>
    /\ pc' = next
    /\ UNCHANGED <<fileState, fileRows, df, raised, saveState>>

InputDate ==
    /\ pc = "date"
    /\ \E t \in DateInputs :
          LET g == GetInput(t, CastStr(t), CondDate(CastStr(t).v))
          IN  IF g.accepted
              THEN Accepted(t, "activity") /\ pdate' = g.v
                   /\ UNCHANGED <<pactivity, pduration>>
              ELSE Rejected(t, "Invalid date.")

InputActivity ==
    /\ pc = "activity"
    /\ \E t \in ActivityInputs :
          LET g == GetInput(t, CastStr(t), CondActivity(CastStr(t).v))
          IN  IF g.accepted
              THEN Accepted(t, "duration") /\ pactivity' = g.v
                   /\ UNCHANGED <<pdate, pduration>>
              ELSE Rejected(t, "Activity can't be empty.")

InputDuration ==
    /\ pc = "duration"
    /\ \E t \in DurationInputs :
          LET g == GetInput(t, CastInt(t), CondDuration(CastInt(t).v))
          IN  IF g.accepted
              THEN Accepted(t, "calories") /\ pduration' = g.v
                   /\ UNCHANGED <<pdate, pactivity>>
              ELSE Rejected(t, "Must be a positive number.")

\* The last prompt: once the calories are accepted prompt_activity calls
\* tracker.add_activity(date, activity, duration, calories).
InputCalories ==
    /\ pc = "calories"
    /\ \E t \in CaloriesInputs :
          LET g == GetInput(t, CastInt(t), CondCalories(CastInt(t).v))
          IN  IF g.accepted
              THEN add_activity(pdate, pactivity, IntArg(pduration), IntArg(g.v),
                                "prompt_activity")
              ELSE Rejected(t, "Must be zero or more.")

Next ==
    \/ Restart
    \/ BackToMenu
    \/ AddActivity
    \/ ViewDailySummary
    \/ ViewActivityTrends
    \/ FilterDate
    \/ FilterType
    \/ ChooseAdd
    \/ InputDate
    \/ InputActivity
    \/ InputDuration
    \/ InputCalories

Spec == Init /\ [][Next]_vars

-----------------------------------------------------------------------------
(* What the claims are stated with *)

Last(q) == q[Len(q)]

\* The sum of column col over the rows of d at the indices of S.
RECURSIVE SumAt(_, _, _)
SumAt(d, S, col) ==
    IF S = {} THEN 0
    ELSE LET j == CHOOSE x \in S : TRUE IN d[j][col] + SumAt(d, S \ {j}, col)

Occurrences(q, x) == Cardinality({i \in 1..Len(q) : q[i] = x})

\* The two sequences hold the same records, each as often.
SameBag(a, b) ==
    /\ Len(a) = Len(b)
    /\ \A x \in Range(a) \cup Range(b) : Occurrences(a, x) = Occurrences(b, x)

\* A date value is a day of the calendar.
IsCalendarDate(v) ==
    /\ v \div 10000 >= 1
    /\ (v \div 100) % 100 \in 1..12
    /\ v % 100 \in 1..DaysInMonth(v \div 10000, (v \div 100) % 100)

\* The field constraints of a record.
FieldsValid(r) ==
    /\ IsCalendarDate(r.date)
    /\ r.activity_type # <<>>
    /\ r.duration > 0
    /\ r.calories_burned >= 0

\* A text is exactly YYYY-MM-DD and names a day of the calendar.
StrictYmd(t) ==
    /\ Len(t) = 10
    /\ t[5] = "-" /\ t[8] = "-"
    /\ \A i \in {1, 2, 3, 4, 6, 7, 9, 10} : IsDigit(t[i])
    /\ Strptime(t).ok

\* A row of the file has its four fields present, and they parse.
RowWellFormed(row) ==
    /\ row.date # <<>> /\ Strptime(row.date).ok
    /\ row.activity_type # <<>>
    /\ row.duration # <<>> /\ ParseInt(row.duration).ok
    /\ row.calories_burned # <<>> /\ ParseInt(row.calories_burned).ok

RowAsRecord(row) ==
    [date |-> Strptime(row.date).date,
     activity_type |-> row.activity_type,
     duration |-> ParseInt(row.duration).n,
     calories_burned |-> ParseInt(row.calories_burned).n]

WellFormedRecords(rows) ==
    LET kept == SelectSeq(rows, RowWellFormed)
    IN  [i \in 1..Len(kept) |-> RowAsRecord(kept[i])]

\* The call of add_activity had arguments it can make a record of.
ValidCall(a) ==
    Strptime(a.date_str).ok /\ PyInt(a.duration).ok /\ PyInt(a.calories).ok

\* df grew by exactly the record the arguments a describe.
Appended(before, after, a) ==
    /\ Len(after) = Len(before) + 1
    /\ SubSeq(after, 1, Len(before)) = before
    /\ Last(after).date = Strptime(a.date_str).date
    /\ Last(after).activity_type = Strip(a.activity_type)
    /\ Last(after).duration = PyInt(a.duration).n
    /\ Last(after).calories_burned = PyInt(a.calories).n

WriteFailed == \E i \in 1..Len(printed) : printed[i] = "Failed to save data"

-----------------------------------------------------------------------------
(* The claims *)

\* C1, as stated: after every call of add_activity that returns, the store
\* is exactly one record longer, the records held before are unchanged and in
\* the same order, and the last record has the date, trimmed activity type,
\* duration and calories passed in.
C1_EveryCallAppends ==
    [][(lastOp' = "add_activity" /\ raised' = "none")
          => Appended(df, df', lastArgs')]_vars

\* C1, amended: a call of add_activity whose date_str parses and whose
\* duration and calories are integers makes the store exactly one record
\* longer, keeps the records held before, in order, and puts last the record
\* with the date, trimmed activity type, duration and calories passed in; a
\* call whose date_str does not parse, or whose duration or calories int()
\* rejects, leaves the store as it was.
C1_ValidCallAppends ==
    [][lastOp' = "add_activity"
          => IF ValidCall(lastArgs') THEN Appended(df, df', lastArgs')
             ELSE df' = df]_vars

\* C1 witness: a call with a padded activity type appended to a store that
\* already held records.
C1_Witness ==
    /\ lastOp = "add_activity" /\ raised = "none"
    /\ ValidCall(lastArgs)
    /\ Len(df) >= 2
    /\ lastArgs.activity_type = Text_run_padded
    /\ Last(df).activity_type = Text_run

\* C2: when the file is what _save wrote of a store of records that satisfy
\* the field constraints, _load_data yields the same records, each as often.
C2_RoundTrip ==
    [][(lastOp' = "load" /\ fileState = "ok" /\ fileRows = ToCsv(df)
            /\ \A r \in Range(df) : FieldsValid(r))
          => SameBag(df', df)]_vars

\* C3: _load_data of a readable file returns exactly the rows whose four
\* fields are present and parse, in file order.
C3_LoadKeepsWellFormedRows ==
    (lastOp = "load" /\ fileState = "ok") => df = WellFormedRecords(fileRows)

\* C4: daily_summary has one entry per distinct date of the store, each date
\* once, with the sums of duration and calories_burned over exactly the
\* records of that date; it is empty for an empty store.
C4_DailySummary ==
    lastOp = "daily_summary" =>
        /\ {result[i].date : i \in 1..Len(result)} = {r.date : r \in Range(df)}
        /\ \A i, k \in 1..Len(result) : result[i].date = result[k].date => i = k
        /\ \A i \in 1..Len(result) :
              LET S == {j \in 1..Len(df) : df[j].date = result[i].date}
              IN  /\ result[i].total_duration = SumAt(df, S, "duration")
                  /\ result[i].total_calories = SumAt(df, S, "calories_burned")
        /\ df = <<>> => result = <<>>

\* C4 witness: the example of the specification, two records on one day.
C4_Witness ==
    /\ lastOp = "daily_summary"
    /\ Len(df) = 3 /\ Len(result) = 2
    /\ result[1] = [date |-> 20240101, total_duration |-> 50, total_calories |-> 450]
    /\ result[2] = [date |-> 20240102, total_duration |-> 40, total_calories |-> 400]

\* C5: activity_trends has one entry per distinct activity_type text, told
\* apart by case, with the means (sum divided by count) of duration and
\* calories_burned over exactly the records of that type; it is empty for an
\* empty store.
C5_ActivityTrends ==
    lastOp = "activity_trends" =>
        /\ {result[i].activity_type : i \in 1..Len(result)}
              = {r.activity_type : r \in Range(df)}
        /\ \A i, k \in 1..Len(result) :
              result[i].activity_type = result[k].activity_type => i = k
        /\ \A i \in 1..Len(result) :
              LET S == {j \in 1..Len(df) :
                           df[j].activity_type = result[i].activity_type}
                  n == Cardinality(S)
              IN  /\ result[i].avg_duration.den > 0
                  /\ result[i].avg_duration.num * n
                        = result[i].avg_duration.den * SumAt(df, S, "duration")
                  /\ result[i].avg_calories.den > 0
                  /\ result[i].avg_calories.num * n
                        = result[i].avg_calories.den * SumAt(df, S, "calories_burned")
        /\ df = <<>> => result = <<>>

\* C5 witness: "Run" and "run" are two groups, and a mean is no integer.
C5_Witness ==
    /\ lastOp = "activity_trends"
    /\ \E i, k \in 1..Len(result) :
          /\ result[i].activity_type = Text_Run
          /\ result[k].activity_type = Text_run
          /\ result[i].avg_duration = [num |-> 30, den |-> 1]
          /\ result[i].avg_calories = [num |-> 850, den |-> 3]

\* C6: filter_by_type returns exactly the records whose trimmed activity_type
\* equals type_name without regard to case, in their order in the store.
C6_FilterByTypeTrimmed ==
    lastOp = "filter_by_type" =>
        result = SelectSeq(df, LAMBDA r :
                     Lower(Strip(r.activity_type)) = Lower(lastArgs.activity_type))

\* C7: for valid dates start and end, filter_by_date returns exactly the
\* records with start <= date <= end, in order; those dated D when
\* start = end = D; none when start > end.
C7_FilterByDateInclusive ==
    (/\ lastOp = "filter_by_date"
     /\ Strptime(lastArgs.start_date).ok /\ Strptime(lastArgs.end_date).ok) =>
        LET s == Strptime(lastArgs.start_date).date
            e == Strptime(lastArgs.end_date).date
        IN  /\ result = SelectSeq(df, LAMBDA r : s <= r.date /\ r.date <= e)
            /\ s = e => result = SelectSeq(df, LAMBDA r : r.date = s)
            /\ s > e => result = <<>>

\* C7 witness: start = end = 2024-01-01 on a store that holds records of
\* that day and of another.
C7_Witness ==
    /\ lastOp = "filter_by_date"
    /\ lastArgs.start_date = Date_2024_01_01 /\ lastArgs.end_date = Date_2024_01_01
    /\ result # <<>>
    /\ Len(result) < Len(df)

\* C8: no operation lets an exception escape to its caller.
C8_NothingRaises == raised = "none"

\* C9: prompt_activity passes to add_activity a date that is strictly
\* YYYY-MM-DD, an activity type that is not empty once trimmed, an integer
\* duration > 0 and an integer calories >= 0.
C9_PromptPassesValidated ==
    (lastOp = "add_activity" /\ lastArgs.via = "prompt_activity") =>
        /\ StrictYmd(lastArgs.date_str)
        /\ Strip(lastArgs.activity_type) # <<>>
        /\ lastArgs.duration.isInt /\ lastArgs.duration.n > 0
        /\ lastArgs.calories.isInt /\ lastArgs.calories.n >= 0

\* C10: right after an add_activity whose write succeeds the file holds
\* exactly the records of the store, in the store's order; an add_activity
\* whose write fails still leaves the store with the new record appended.
C10_PersistOnAdd ==
    [][(lastOp' = "add_activity" /\ raised' = "none" /\ ValidCall(lastArgs'))
          => /\ Appended(df, df', lastArgs')
             /\ ~WriteFailed'
                   => /\ fileState' = "ok"
                      /\ Len(fileRows') = Len(df')
                      /\ \A i \in 1..Len(df') : fileRows'[i] = ToCsvRow(df'[i])]_vars

\* C10 witness: a write that succeeded after an earlier one had failed, so
\* that it wrote a record of the earlier add too.
C10_Witness ==
    /\ lastOp = "add_activity" /\ raised = "none"
    /\ saveState = "flushed"
    /\ ~WriteFailed
    /\ Len(df) >= 2
    /\ fileRows = ToCsv(df)

====
